---- MODULE Spec2Model ----
(***************************************************************************)
(* Model of open_clip/modal_3d/datasets.py of ViT-Lens: the point-cloud    *)
(* geometry (farthest point sampling, normalisation, augmentation), the    *)
(* dataset adapters (ModelNet, Objverse, ScanObjectNN, ShapeNet) and the   *)
(* batch collation function.                                               *)
(*                                                                         *)
(* Numbers.  A stored point cloud is an N x 3 array whose coordinates are  *)
(* integers (floats that happen to be whole).  Everything computed from it *)
(* is kept exact: an array that went through normalisation and the affine  *)
(* augmentations is a record                                               *)
(*     [lin, lden, m2, off, oden]                                          *)
(* whose row i has the value  lin[i] / (lden * sqrt(m2)) + off[i] / oden.  *)
(* m2 = 0 stands for the array 0/0, all of whose entries are NaN.          *)
(***************************************************************************)
EXTENDS Integers, Sequences, FiniteSets, TLC

VARIABLES
    fn,       \* pure-function harness: the function applied last ("none" before)
    arg,      \* pure-function harness: its argument
    draw,     \* the random draws of the last call
    ret,      \* the value returned (or the exception raised) by the last call
    fs,       \* the data files on disk and the files the program wrote
    dataset,  \* the dataset adapter object built by Dataset_3D, [kind |-> "none"] before
    call      \* the __getitem__ call in progress: its locals and position

vars == <<fn, arg, draw, ret, fs, dataset, call>>

----------------------------------------------------------------------------
(* Bounds *)

MaxPts == 3       \* most rows of a point cloud
MaxCoord == 1     \* coordinates range over 0..MaxCoord

----------------------------------------------------------------------------
(* Helpers on sequences and vectors *)

Range(s) == {s[i] : i \in 1..Len(s)}

Min(a, b) == IF a < b THEN a ELSE b

RECURSIVE SumSeq(_)
SumSeq(s) == IF s = <<>> THEN 0 ELSE s[1] + SumSeq(Tail(s))

RECURSIVE MaxSeq(_)
MaxSeq(s) == IF Len(s) = 1 THEN s[1]
             ELSE LET m == MaxSeq(Tail(s)) IN IF s[1] >= m THEN s[1] ELSE m

\* np.sum(rows, axis=0) of an N x 3 array
ColSum(rows) == [c \in 1..3 |-> SumSeq([i \in 1..Len(rows) |-> rows[i][c]])]

\* np.sum(v ** 2) of one row
SqNorm(v) == v[1] * v[1] + v[2] * v[2] + v[3] * v[3]

VecSub(a, b) == [c \in 1..3 |-> a[c] - b[c]]

VecScale(k, a) == [c \in 1..3 |-> k * a[c]]

Zero3 == <<0, 0, 0>>

\* np.argmax: the index (0-based) of the first largest entry
ArgMax(s) == (CHOOSE i \in 1..Len(s) :
                 /\ \A j \in 1..Len(s) : s[j] <= s[i]
                 /\ \A j \in 1..(i - 1) : s[j] < s[i]) - 1

\* the stored coordinates, and the stored clouds of 1..MaxPts rows
Points == {<<x, y, z>> : x \in 0..MaxCoord, y \in 0..MaxCoord, z \in 0..1}

RawClouds == UNION {[1..n -> Points] : n \in 1..MaxPts}

\* the clouds farthest_point_sample is called on: points of the plane z = 0
PlanarClouds == UNION {[1..n -> {p \in Points : p[3] = 0}] : n \in 1..MaxPts}

----------------------------------------------------------------------------
(* farthest_point_sample *)

\* distance = np.ones((N,)) * 1e10, capped to the model's integer range; every
\* squared distance of the bounded coordinates is below it
Dist1e10 == 1000000000

RECURSIVE FPSLoop(_, _, _, _, _, _)
FPSLoop(xyz, npoint, i, centroids, distance, farthest) ==
    IF i >= npoint THEN centroids
    ELSE LET centroid == xyz[farthest + 1]
             dist == [k \in 1..Len(xyz) |-> SqNorm(VecSub(xyz[k], centroid))]
             distance2 == [k \in 1..Len(xyz) |->
                             IF dist[k] < distance[k] THEN dist[k] ELSE distance[k]]
         IN FPSLoop(xyz, npoint, i + 1, Append(centroids, farthest),
                    distance2, ArgMax(distance2))

\* a sampler that stops when the input's rows are used up
farthest_point_sample_clamped(point, npoint, farthest0) ==
    LET N == Len(point)
        xyz == [k \in 1..N |-> SubSeq(point[k], 1, 3)]
        centroids == FPSLoop(xyz, Min(npoint, N), 0, <<>>, [k \in 1..N |-> Dist1e10], farthest0)
    IN [k \in 1..Len(centroids) |-> point[centroids[k] + 1]]

\* farthest0 is the draw np.random.randint(0, N)
farthest_point_sample(point, npoint, farthest0) ==
    LET N == Len(point)
        xyz == [k \in 1..N |-> SubSeq(point[k], 1, 3)]
        centroids == FPSLoop(xyz, npoint, 0, <<>>, [k \in 1..N |-> Dist1e10], farthest0)
    IN [k \in 1..npoint |-> point[centroids[k] + 1]]

----------------------------------------------------------------------------
(* pc_normalize, Objverse.pc_norm, ShapeNet.pc_norm *)

\* pc - np.mean(pc, axis=0), as numerators over the common denominator N
Centered(pc) == LET N == Len(pc)
                    S == ColSum(pc)
                IN [i \in 1..N |-> VecSub(VecScale(N, pc[i]), S)]

\* a normalisation that scales without centring first
pc_normalize_uncentred(pc) ==
    [lin |-> pc, lden |-> 1,
     m2 |-> MaxSeq([i \in 1..Len(pc) |-> SqNorm(pc[i])]),
     off |-> [i \in 1..Len(pc) |-> Zero3], oden |-> 1]

\* m = sqrt(max |q_i|^2) / N, so (q_i / N) / m = q_i / sqrt(max |q_i|^2);
\* when every point coincides m = 0 and the quotient is 0/0
pc_normalize(pc) ==
    LET q == Centered(pc)
    IN [lin |-> q, lden |-> 1,
        m2 |-> MaxSeq([i \in 1..Len(q) |-> SqNorm(q[i])]),
        off |-> [i \in 1..Len(q) |-> Zero3], oden |-> 1]

Objverse_pc_norm(pc) ==
    LET q == Centered(pc)
    IN [lin |-> q, lden |-> 1,
        m2 |-> MaxSeq([i \in 1..Len(q) |-> SqNorm(q[i])]),
        off |-> [i \in 1..Len(q) |-> Zero3], oden |-> 1]

ShapeNet_pc_norm(pc) ==
    LET q == Centered(pc)
    IN [lin |-> q, lden |-> 1,
        m2 |-> MaxSeq([i \in 1..Len(q) |-> SqNorm(q[i])]),
        off |-> [i \in 1..Len(q) |-> Zero3], oden |-> 1]

\* readings of an array in the exact representation
IsNaN(a) == a.m2 = 0

NoOffset(a) == \A i \in 1..Len(a.off) : a.off[i] = Zero3

\* the mean of the rows is the origin
CentroidAtOrigin(a) == ~IsNaN(a) /\ NoOffset(a) /\ ColSum(a.lin) = Zero3

\* the largest distance of a row from the origin is 1
MaxRadiusOne(a) ==
    /\ ~IsNaN(a) /\ NoOffset(a)
    /\ MaxSeq([i \in 1..Len(a.lin) |-> SqNorm(a.lin[i])]) = a.lden * a.lden * a.m2

AllCoincide(pc) == \A i \in 1..Len(pc) : pc[i] = pc[1]

----------------------------------------------------------------------------
(* The augmentation functions, on a batch: a sequence of B clouds *)

FromRaw(pc) == [lin |-> pc, lden |-> 1, m2 |-> 1,
                off |-> [i \in 1..Len(pc) |-> Zero3], oden |-> 1]

\* np.dot(v, M) of a row vector and a 3 x 3 matrix
VecMat(v, M) == [j \in 1..3 |-> v[1] * M[1][j] + v[2] * M[2][j] + v[3] * M[3][j]]

\* np.dot(A, B) of two 3 x 3 matrices
MatMul(A, B) == [i \in 1..3 |-> VecMat(A[i], B)]

\* np.dot(shape_pc, M / d): every row of the cloud times a matrix of rationals
ArrDot(a, M, d) ==
    [a EXCEPT !.lin = [i \in 1..Len(a.lin) |-> VecMat(a.lin[i], M)],
              !.lden = @ * d,
              !.off = [i \in 1..Len(a.off) |-> VecMat(a.off[i], M)],
              !.oden = @ * d]

\* the angles whose cosine and sine are rational: <<cos * d, sin * d, d>>.
\* rotation_angle = np.random.uniform() * 2 * np.pi
RotationDraws == {<<1, 0, 1>>, <<0, 1, 1>>, <<-1, 0, 1>>, <<3, 4, 5>>}

\* np.clip(angle_sigma * np.random.randn(3), -angle_clip, angle_clip): per axis
\* the angle 0 or +-asin(13/85) = +-0.153, inside the clip of 0.18
PerturbationDraws == {<<<<1, 0, 1>>, <<1, 0, 1>>, <<1, 0, 1>>>>,
                      <<<<84, 13, 85>>, <<1, 0, 1>>, <<1, 0, 1>>>>,
                      <<<<1, 0, 1>>, <<84, -13, 85>>, <<1, 0, 1>>>>,
                      <<<<84, 13, 85>>, <<84, 13, 85>>, <<84, -13, 85>>>>}

\* np.random.uniform(scale_low, scale_high, B): 0.8, 1 and 1.2, as <<num, den>>
ScaleDraws == {<<4, 5>>, <<1, 1>>, <<6, 5>>}

\* np.random.uniform(-shift_range, shift_range, (B, 3)), in twentieths
ShiftDen == 20

ShiftDraws == {<<-2, 0, 1>>, <<0, 0, 0>>, <<1, 2, -1>>}

\* np.clip(sigma * np.random.randn(B, N, C), -clip, clip), in hundredths: the
\* noise of entry (b, n, c) under each drawn pattern; 5 and -5 are the clip
JitterDen == 100

JitterDraws == {"zero", "high", "low", "mixed"}

JitterNoise(pattern, b, n, c) ==
    CASE pattern = "zero" -> 0
      [] pattern = "high" -> 5
      [] pattern = "low" -> -5
      [] pattern = "mixed" -> ((b + n + c) % 3) - 1

rotate_point_cloud(batch_data, angles) ==
    [k \in 1..Len(batch_data) |->
        LET cosval == angles[k][1]
            sinval == angles[k][2]
            d == angles[k][3]
            rotation_matrix == <<<<cosval, 0, sinval>>, <<0, d, 0>>, <<-sinval, 0, cosval>>>>
        IN ArrDot(batch_data[k], rotation_matrix, d)]

\* a dropout that deletes the dropped rows
random_point_dropout_deleting(batch_pc, drop_idx) ==
    [b \in 1..Len(batch_pc) |->
        LET keep(rows) == LET idx == {j \in 1..Len(rows) : (j - 1) \notin drop_idx[b]}
                              ord == CHOOSE f \in [1..Cardinality(idx) -> idx] :
                                        \A i, j \in 1..Cardinality(idx) : i < j => f[i] < f[j]
                          IN [i \in 1..Cardinality(idx) |-> rows[ord[i]]]
        IN [batch_pc[b] EXCEPT !.lin = keep(@), !.off = keep(@)]]

\* a dropout that clears the dropped rows instead of copying the first point
random_point_dropout_zeroing(batch_pc, drop_idx) ==
    [b \in 1..Len(batch_pc) |->
        [batch_pc[b] EXCEPT
            !.lin = [j \in 1..Len(@) |-> IF (j - 1) \in drop_idx[b] THEN Zero3 ELSE @[j]],
            !.off = [j \in 1..Len(@) |-> IF (j - 1) \in drop_idx[b] THEN Zero3 ELSE @[j]]]]

\* drop_idx[b] is np.where(np.random.random(N) <= dropout_ratio)[0] of cloud b
random_point_dropout(batch_pc, drop_idx) ==
    [b \in 1..Len(batch_pc) |->
        IF Cardinality(drop_idx[b]) > 0
        THEN [batch_pc[b] EXCEPT
                 !.lin = [j \in 1..Len(@) |-> IF (j - 1) \in drop_idx[b] THEN @[1] ELSE @[j]],
                 !.off = [j \in 1..Len(@) |-> IF (j - 1) \in drop_idx[b] THEN @[1] ELSE @[j]]]
        ELSE batch_pc[b]]

random_scale_point_cloud(batch_data, scales) ==
    [batch_index \in 1..Len(batch_data) |->
        [batch_data[batch_index] EXCEPT
            !.lin = [i \in 1..Len(@) |-> VecScale(scales[batch_index][1], @[i])],
            !.lden = @ * scales[batch_index][2],
            !.off = [i \in 1..Len(@) |-> VecScale(scales[batch_index][1], @[i])],
            !.oden = @ * scales[batch_index][2]]]

shift_point_cloud(batch_data, shifts) ==
    [batch_index \in 1..Len(batch_data) |->
        LET a == batch_data[batch_index]
        IN [a EXCEPT
               !.off = [i \in 1..Len(@) |->
                           [c \in 1..3 |-> @[i][c] * ShiftDen + shifts[batch_index][c] * a.oden]],
               !.oden = @ * ShiftDen]]

jitter_point_cloud(batch_data, pattern) ==
    [b \in 1..Len(batch_data) |->
        LET a == batch_data[b]
        IN [a EXCEPT
               !.off = [n \in 1..Len(@) |->
                           [c \in 1..3 |-> JitterNoise(pattern, b, n, c) * a.oden
                                           + @[n][c] * JitterDen]],
               !.oden = @ * JitterDen]]

rotate_perturbation_point_cloud(batch_data, angles) ==
    [k \in 1..Len(batch_data) |->
        LET ax == angles[k][1]
            ay == angles[k][2]
            az == angles[k][3]
            Rx == <<<<ax[3], 0, 0>>, <<0, ax[1], -ax[2]>>, <<0, ax[2], ax[1]>>>>
            Ry == <<<<ay[1], 0, ay[2]>>, <<0, ay[3], 0>>, <<-ay[2], 0, ay[1]>>>>
            Rz == <<<<az[1], -az[2], 0>>, <<az[2], az[1], 0>>, <<0, 0, az[3]>>>>
            R == MatMul(Rz, MatMul(Ry, Rx))
        IN ArrDot(batch_data[k], R, az[3] * ay[3] * ax[3])]

\* batch_data.shape of a batch all of whose clouds have as many rows
Shape(batch) == <<Len(batch), Len(batch[1].lin), 3>>

\* the batch is a B x N x 3 array
HasShape(batch, B, N) ==
    /\ Len(batch) = B
    /\ \A b \in 1..Len(batch) :
          /\ Len(batch[b].lin) = N /\ Len(batch[b].off) = N
          /\ \A i \in 1..Len(batch[b].lin) : Len(batch[b].lin[i]) = 3
          /\ \A i \in 1..Len(batch[b].off) : Len(batch[b].off[i]) = 3

----------------------------------------------------------------------------
(* Specification of farthest_point_sample *)

NoFs == [disk |-> [kind |-> "none"], written |-> {}]
NoDataset == [kind |-> "none"]
NoCall == [pc |-> "idle", fn |-> "none"]
NoDraw == [none |-> TRUE]
NoArg == [none |-> TRUE]
NoRet == [kind |-> "none"]

InitFPS ==
    /\ fn = "none"
    /\ arg \in {[point |-> p, npoint |-> n] : p \in PlanarClouds, n \in 1..MaxPts}
    /\ draw = NoDraw /\ ret = NoRet
    /\ fs = NoFs /\ dataset = NoDataset /\ call = NoCall

CallFPS ==
    /\ fn = "none"
    /\ \E farthest0 \in 0..(Len(arg.point) - 1) :
          /\ draw' = [farthest |-> farthest0]
          /\ ret' = [kind |-> "array",
                     rows |-> farthest_point_sample(arg.point, arg.npoint, farthest0)]
    /\ fn' = "farthest_point_sample"
    /\ UNCHANGED <<arg, fs, dataset, call>>

SpecFPS == InitFPS /\ [][CallFPS]_vars

\* C1: farthest_point_sample(point, npoint) returns exactly npoint rows, each a
\* row of the input, and the first returned row is the initially drawn point.
C1_FPS ==
    fn = "farthest_point_sample" =>
        /\ Len(ret.rows) = arg.npoint
        /\ \A k \in 1..Len(ret.rows) : ret.rows[k] \in Range(arg.point)
        /\ ret.rows[1] = arg.point[draw.farthest + 1]

\* more rows asked for than the input has, and the draw is not the first row
C1_Witness ==
    /\ fn = "farthest_point_sample"
    /\ arg.npoint > Len(arg.point)
    /\ draw.farthest > 0
    /\ arg.point[draw.farthest + 1] # arg.point[1]
    /\ Len(ret.rows) = arg.npoint

----------------------------------------------------------------------------
(* Specification of the three normalisation functions *)

NormFns == {"pc_normalize", "Objverse.pc_norm", "ShapeNet.pc_norm"}

InitNorm ==
    /\ fn = "none"
    /\ arg \in {[pc |-> p] : p \in RawClouds}
    /\ draw = NoDraw /\ ret = NoRet
    /\ fs = NoFs /\ dataset = NoDataset /\ call = NoCall

CallNorm ==
    /\ fn = "none"
    /\ \E f \in NormFns :
          /\ fn' = f
          /\ ret' = [kind |-> "array",
                     pc |-> CASE f = "pc_normalize" -> pc_normalize(arg.pc)
                              [] f = "Objverse.pc_norm" -> Objverse_pc_norm(arg.pc)
                              [] f = "ShapeNet.pc_norm" -> ShapeNet_pc_norm(arg.pc)]
    /\ UNCHANGED <<arg, draw, fs, dataset, call>>

SpecNorm == InitNorm /\ [][CallNorm]_vars

----------------------------------------------------------------------------
(* Specification of the augmentation functions *)

AugFns == {"rotate_point_cloud", "random_point_dropout", "random_scale_point_cloud",
           "shift_point_cloud", "jitter_point_cloud", "rotate_perturbation_point_cloud"}

\* the batches of the harness: B = 1 or 2 clouds of N rows over two points
BatchSizes == {1, 2}

AugPoints == {<<1, 0, 0>>, <<0, MaxCoord, 1>>}

AugBatches == UNION {[1..B -> {FromRaw(p) : p \in [1..N -> AugPoints]}] :
                        B \in BatchSizes, N \in 1..MaxPts}

InitAug ==
    /\ fn = "none"
    /\ arg \in {[batch |-> x] : x \in AugBatches}
    /\ draw = NoDraw /\ ret = NoRet
    /\ fs = NoFs /\ dataset = NoDataset /\ call = NoCall

AugB == Len(arg.batch)
AugN == Len(arg.batch[1].lin)

CallRotate ==
    /\ fn = "none"
    /\ \E angles \in [1..AugB -> RotationDraws] :
          /\ draw' = [angles |-> angles]
          /\ ret' = [kind |-> "array", batch |-> rotate_point_cloud(arg.batch, angles)]
    /\ fn' = "rotate_point_cloud"
    /\ UNCHANGED <<arg, fs, dataset, call>>

CallDropout ==
    /\ fn = "none"
    /\ \E drop_idx \in [1..AugB -> SUBSET (0..(AugN - 1))] :
          /\ draw' = [drop_idx |-> drop_idx]
          /\ ret' = [kind |-> "array", batch |-> random_point_dropout(arg.batch, drop_idx)]
    /\ fn' = "random_point_dropout"
    /\ UNCHANGED <<arg, fs, dataset, call>>

CallScale ==
    /\ fn = "none"
    /\ \E scales \in [1..AugB -> ScaleDraws] :
          /\ draw' = [scales |-> scales]
          /\ ret' = [kind |-> "array", batch |-> random_scale_point_cloud(arg.batch, scales)]
    /\ fn' = "random_scale_point_cloud"
    /\ UNCHANGED <<arg, fs, dataset, call>>

CallShift ==
    /\ fn = "none"
    /\ \E shifts \in [1..AugB -> ShiftDraws] :
          /\ draw' = [shifts |-> shifts]
          /\ ret' = [kind |-> "array", batch |-> shift_point_cloud(arg.batch, shifts)]
    /\ fn' = "shift_point_cloud"
    /\ UNCHANGED <<arg, fs, dataset, call>>

CallJitter ==
    /\ fn = "none"
    /\ \E pattern \in JitterDraws :
          /\ draw' = [pattern |-> pattern]
          /\ ret' = [kind |-> "array", batch |-> jitter_point_cloud(arg.batch, pattern)]
    /\ fn' = "jitter_point_cloud"
    /\ UNCHANGED <<arg, fs, dataset, call>>

CallPerturb ==
    /\ fn = "none"
    /\ \E angles \in [1..AugB -> PerturbationDraws] :
          /\ draw' = [angles |-> angles]
          /\ ret' = [kind |-> "array",
                     batch |-> rotate_perturbation_point_cloud(arg.batch, angles)]
    /\ fn' = "rotate_perturbation_point_cloud"
    /\ UNCHANGED <<arg, fs, dataset, call>>

NextAug == CallRotate \/ CallDropout \/ CallScale \/ CallShift \/ CallJitter \/ CallPerturb

SpecAug == InitAug /\ [][NextAug]_vars

\* C3: each augmentation function returns a B x N x 3 array for a B x N x 3
\* argument, whatever the draw; dropout removes no point from the array.
C3_ShapePreserved ==
    fn \in AugFns => HasShape(ret.batch, AugB, AugN) /\ Shape(ret.batch) = Shape(arg.batch)

\* dropout that drew every index of the second cloud of a batch of two
C3_Witness ==
    /\ fn = "random_point_dropout"
    /\ AugB = 2 /\ AugN = MaxPts
    /\ draw.drop_idx[2] = 0..(AugN - 1)
    /\ Shape(ret.batch) = <<2, MaxPts, 3>>

\* point j (1-based) of a cloud, with the scale it is stored at
PointAt(a, j) == <<a.lin[j], a.lden, a.m2, a.off[j], a.oden>>

\* C11: random_point_dropout replaces dropped points by the first point: every
\* output point (b, j) is the input point (b, j) or the input first point
\* (b, 0), the dropped ones being the first point; the first point of every
\* cloud is unchanged, also when index 0 is among the dropped indices.
C11_DropoutFirstPoint ==
    fn = "random_point_dropout" =>
        \A b \in 1..AugB :
           /\ \A j \in 1..AugN :
                 /\ PointAt(ret.batch[b], j)
                       \in {PointAt(arg.batch[b], j), PointAt(arg.batch[b], 1)}
                 /\ (j - 1) \in draw.drop_idx[b]
                       => PointAt(ret.batch[b], j) = PointAt(arg.batch[b], 1)
                 /\ (j - 1) \notin draw.drop_idx[b]
                       => PointAt(ret.batch[b], j) = PointAt(arg.batch[b], j)
           /\ PointAt(ret.batch[b], 1) = PointAt(arg.batch[b], 1)

\* index 0 is dropped together with a later point that differs from the first,
\* and that later point has become the first point
C11_Witness ==
    /\ fn = "random_point_dropout"
    /\ \E b \in 1..AugB : \E j \in 2..AugN :
          /\ {0, j - 1} \subseteq draw.drop_idx[b]
          /\ PointAt(arg.batch[b], j) # PointAt(arg.batch[b], 1)
          /\ PointAt(ret.batch[b], j) = PointAt(arg.batch[b], 1)
          /\ PointAt(ret.batch[b], 1) = PointAt(arg.batch[b], 1)

----------------------------------------------------------------------------
(* customized_collate_fn *)

\* Python values: a tensor is [type, dtype, shape, data] with data in row-major
\* order, a numpy array the same with type "ndarray", a numpy scalar
\* [type |-> "npscalar", dtype, v], a number [type |-> "int" or "float", v], a
\* string [type |-> "str", v], a list or tuple [type |-> "seq", items], a
\* namedtuple [type |-> "namedtuple", items], a dict [type |-> "dict", keys, vals]
\* with string keys, None [type |-> "NoneType"], a set [type |-> "set"].
Tensor(shape, data) == [type |-> "tensor", dtype |-> "float32", shape |-> shape, data |-> data]

RECURSIVE Numel(_)
Numel(shape) == IF shape = <<>> THEN 1 ELSE shape[1] * Numel(Tail(shape))

RECURSIVE Concat(_)
Concat(ss) == IF ss = <<>> THEN <<>> ELSE ss[1] \o Concat(Tail(ss))

Raise(exc) == [kind |-> "raise", exc |-> exc]

\* the slice out[i] of a tensor along its first dimension
Slice(t, i) == LET n == Numel(Tail(t.shape))
               IN SubSeq(t.data, (i - 1) * n + 1, i * n)

\* np_str_obj_array_pattern = re.compile(r"[SaUO]"): the dtypes it finds
StrObjDtypes == {"bytes", "str", "object"}

\* example[4]: "value" (not None), "None", or the exception the indexing raises
Index4(example) ==
    CASE example.type \in {"tensor", "ndarray"} ->
            IF Len(example.shape) = 0 \/ example.shape[1] <= 4 THEN "IndexError" ELSE "value"
      [] example.type \in {"seq", "namedtuple"} ->
            IF Len(example.items) <= 4 THEN "IndexError"
            ELSE IF example.items[5].type = "NoneType" THEN "None" ELSE "value"
      [] example.type = "str" ->
            IF Len(example.v) <= 4 THEN "IndexError" ELSE "value"
      [] example.type = "npscalar" -> "IndexError"
      [] example.type = "dict" -> "KeyError"
      [] OTHER -> "TypeError"

\* the positions of s that satisfy Keep, in order
RECURSIVE FilterSeq(_, _)
FilterSeq(s, keep) ==
    IF s = <<>> THEN <<>>
    ELSE (IF Head(s) \in keep THEN <<Head(s)>> ELSE <<>>) \o FilterSeq(Tail(s), keep)

\* [s[i] for i in range(len(s)) if i in keep], from position i on
RECURSIVE KeepAt(_, _, _)
KeepAt(s, keep, i) ==
    IF i > Len(s) THEN <<>>
    ELSE (IF i \in keep THEN <<s[i]>> ELSE <<>>) \o KeepAt(s, keep, i + 1)

\* torch.stack(batch, 0)
TorchStack(batch) ==
    IF batch = <<>> THEN Raise("RuntimeError")
    ELSE IF \E i \in 1..Len(batch) : batch[i].type # "tensor" THEN Raise("TypeError")
    ELSE IF \E i \in 1..Len(batch) : batch[i].shape # batch[1].shape THEN Raise("RuntimeError")
    ELSE [kind |-> "value",
          v |-> [type |-> "tensor", dtype |-> batch[1].dtype,
                 shape |-> <<Len(batch)>> \o batch[1].shape,
                 data |-> Concat([i \in 1..Len(batch) |-> batch[i].data])]]

\* torch.tensor(batch) of a list of numbers
TorchTensor(batch, dtype) ==
    IF \E i \in 1..Len(batch) : batch[i].type \notin {"int", "float"} THEN Raise("TypeError")
    ELSE [kind |-> "value",
          v |-> [type |-> "tensor", dtype |-> dtype, shape |-> <<Len(batch)>>,
                 data |-> [i \in 1..Len(batch) |-> batch[i].v]]]

\* torch.as_tensor(b) of one element: a tensor, or the exception it raises
AsTensor(b) ==
    CASE b.type = "tensor" -> [kind |-> "value", v |-> b]
      [] b.type = "ndarray" ->
            IF b.dtype \in StrObjDtypes THEN Raise("TypeError")
            ELSE [kind |-> "value", v |-> [b EXCEPT !.type = "tensor"]]
      [] b.type \in {"int", "float"} ->
            [kind |-> "value",
             v |-> [type |-> "tensor", dtype |-> IF b.type = "int" THEN "int64" ELSE "float32",
                    shape |-> <<>>, data |-> <<b.v>>]]
      [] OTHER -> Raise("RuntimeError")

\* torch.as_tensor(batch) of numpy scalars
AsTensorOfScalars(batch) ==
    IF \E i \in 1..Len(batch) : batch[i].type \notin {"npscalar", "int", "float"}
    THEN Raise("TypeError")
    ELSE [kind |-> "value",
          v |-> [type |-> "tensor", dtype |-> batch[1].dtype, shape |-> <<Len(batch)>>,
                 data |-> [i \in 1..Len(batch) |-> batch[i].v]]]

\* len(x): a number, or -1 when x has no len()
PyLen(x) ==
    CASE x.type \in {"seq", "namedtuple"} -> Len(x.items)
      [] x.type = "str" -> Len(x.v)
      [] x.type = "dict" -> Len(x.keys)
      [] x.type \in {"tensor", "ndarray"} -> IF x.shape = <<>> THEN 0 - 1 ELSE x.shape[1]
      [] OTHER -> 0 - 1

\* list(x): what iterating over x yields (x has a len())
PyIter(x) ==
    CASE x.type \in {"seq", "namedtuple"} -> x.items
      [] x.type = "str" -> [i \in 1..Len(x.v) |-> [type |-> "str", v |-> <<x.v[i]>>]]
      [] x.type = "dict" -> [i \in 1..Len(x.keys) |-> [type |-> "str", v |-> <<x.keys[i]>>]]
      [] x.type = "tensor" ->
            [i \in 1..x.shape[1] |-> [x EXCEPT !.shape = Tail(@), !.data = Slice(x, i)]]
      [] x.type = "ndarray" ->
            [i \in 1..x.shape[1] |->
                IF Len(x.shape) = 1
                THEN [type |-> "npscalar", dtype |-> x.dtype, v |-> x.data[i]]
                ELSE [x EXCEPT !.shape = Tail(@), !.data = Slice(x, i)]]

\* the shortest len() of the elements of a batch: zip(*batch) stops there
MinLen(batch) ==
    CHOOSE n \in {PyLen(batch[i]) : i \in 1..Len(batch)} :
        \A i \in 1..Len(batch) : n <= PyLen(batch[i])

\* d[key] of a dict: the position of key in d.keys, 0 when it raises KeyError
KeyAt(d, key) ==
    IF \E i \in 1..Len(d.keys) : d.keys[i] = key
    THEN CHOOSE i \in 1..Len(d.keys) : d.keys[i] = key
    ELSE 0

\* the result of a comprehension over the results outs: the first exception in
\* order, or the values
FirstRaise(outs) ==
    IF \E j \in 1..Len(outs) : outs[j].kind = "raise"
    THEN outs[CHOOSE j \in 1..Len(outs) :
                 outs[j].kind = "raise" /\ \A k \in 1..(j - 1) : outs[k].kind # "raise"]
    ELSE [kind |-> "value", v |-> [j \in 1..Len(outs) |-> outs[j].v]]

\* batch0 is the argument's items, is_list whether it is a list (not a tuple),
\* in_worker whether torch.utils.data.get_worker_info() is not None
RECURSIVE customized_collate_fn(_, _, _)
customized_collate_fn(batch0, is_list, in_worker) ==
    LET elem == batch0[1]
        idx4 == [i \in 1..Len(batch0) |-> Index4(batch0[i])]
        failing == {i \in 1..Len(batch0) : idx4[i] \notin {"value", "None"}}
        batch == IF is_list
                 THEN KeepAt(batch0, {k \in 1..Len(batch0) : idx4[k] = "value"}, 1)
                 ELSE batch0
        \* [customized_collate_fn(samples) for samples in zip(*batch)]
        transposed == [j \in 1..MinLen(batch) |->
                          customized_collate_fn([i \in 1..Len(batch) |-> PyIter(batch[i])[j]],
                                                FALSE, in_worker)]
    IN IF is_list /\ failing # {}
       THEN Raise(idx4[CHOOSE i \in failing : \A j \in failing : i <= j])
       ELSE CASE elem.type = "tensor" -> TorchStack(batch)
              [] elem.type = "ndarray" ->
                    IF elem.dtype \in StrObjDtypes THEN Raise("TypeError")
                    ELSE LET ts == FirstRaise([i \in 1..Len(batch) |-> AsTensor(batch[i])])
                         IN IF ts.kind = "raise" THEN ts
                            ELSE customized_collate_fn(ts.v, TRUE, in_worker)
              [] elem.type = "npscalar" -> AsTensorOfScalars(batch)
              [] elem.type = "float" -> TorchTensor(batch, "float64")
              [] elem.type = "int" -> TorchTensor(batch, "int64")
              [] elem.type = "str" -> [kind |-> "value", v |-> [type |-> "seq", items |-> batch]]
              [] elem.type = "dict" ->
                    LET column(k) ==
                            IF \E i \in 1..Len(batch) :
                                  batch[i].type # "dict" \/ KeyAt(batch[i], elem.keys[k]) = 0
                            THEN Raise("KeyError")
                            ELSE customized_collate_fn(
                                     [i \in 1..Len(batch) |->
                                         batch[i].vals[KeyAt(batch[i], elem.keys[k])]],
                                     TRUE, in_worker)
                        outs == FirstRaise([k \in 1..Len(elem.keys) |-> column(k)])
                    IN IF outs.kind = "raise" THEN outs
                       ELSE [kind |-> "value",
                             v |-> [type |-> "dict", keys |-> elem.keys, vals |-> outs.v]]
              [] elem.type = "namedtuple" ->
                    IF \E i \in 1..Len(batch) : PyLen(batch[i]) < 0 THEN Raise("TypeError")
                    ELSE LET outs == FirstRaise(transposed)
                         IN IF outs.kind = "raise" THEN outs
                            ELSE [kind |-> "value",
                                  v |-> [type |-> "namedtuple", items |-> outs.v]]
              [] elem.type = "seq" ->
                    IF batch = <<>> THEN Raise("StopIteration")
                    ELSE IF PyLen(batch[1]) < 0 THEN Raise("TypeError")
                    ELSE IF \E i \in 2..Len(batch) : PyLen(batch[i]) # PyLen(batch[1])
                    THEN LET bad == CHOOSE i \in 2..Len(batch) :
                                       /\ PyLen(batch[i]) # PyLen(batch[1])
                                       /\ \A k \in 2..(i - 1) : PyLen(batch[k]) = PyLen(batch[1])
                         IN IF PyLen(batch[bad]) < 0 THEN Raise("TypeError")
                            ELSE Raise("RuntimeError")
                    ELSE LET outs == FirstRaise(transposed)
                         IN IF outs.kind = "raise" THEN outs
                            ELSE [kind |-> "value", v |-> [type |-> "seq", items |-> outs.v]]
              [] OTHER -> Raise("TypeError")

----------------------------------------------------------------------------
(* Specification of customized_collate_fn *)

MaxDim0 == 5      \* longest first dimension of a collated tensor
MaxBatch == 2     \* most elements of a collated batch

\* the tensors of a shape: entries counting up from 0 or from 1, or all 0
TensorsOf(shape) ==
    {Tensor(shape, [i \in 1..Numel(shape) |-> v + i * w]) : v \in 0..1, w \in 0..1}

\* the shapes (), (n,) and (n, 2)
CollateShapes == {<<>>} \cup {<<n>> : n \in 1..MaxDim0} \cup {<<n, 2>> : n \in 1..MaxDim0}

CollateTensors == UNION {TensorsOf(S) : S \in CollateShapes}

\* batches of one shape, and batches of two tensors of different shapes
TensorBatches ==
    UNION {[1..K -> TensorsOf(S)] : K \in 1..MaxBatch, S \in CollateShapes}
    \cup {<<x, y>> : x \in TensorsOf(<<MaxDim0>>), y \in TensorsOf(<<MaxDim0, 2>>)}

SameShape(b) == \A i \in 1..Len(b) : b[i].shape = b[1].shape

PyInt(v) == [type |-> "int", v |-> v]

PyNone == [type |-> "NoneType"]

\* a Python list of n numbers, its fifth item None when none5
SeqOf(n, none5) ==
    [type |-> "seq", items |-> [i \in 1..n |-> IF none5 /\ i = 5 THEN PyNone ELSE PyInt(i)]]

\* batches of lists of 1..MaxDim0 + 1 items
SeqBatches ==
    UNION {[1..K -> {SeqOf(n, x) : n \in 1..(MaxDim0 + 1), x \in BOOLEAN}] : K \in 1..MaxBatch}

\* batches of values of a type the function has no branch for: None, sets
UnsupportedBatches == UNION {[1..K -> {PyNone, [type |-> "set"]}] : K \in 1..MaxBatch}

\* batches of one-dimensional numpy arrays of numbers, strings, bytes or objects
ArrayBatches ==
    UNION {[1..K -> {[type |-> "ndarray", dtype |-> d, shape |-> <<n>>,
                      data |-> [i \in 1..n |-> i]] :
                        d \in {"float32"} \cup StrObjDtypes, n \in 1..MaxDim0}] :
             K \in 1..MaxBatch}

\* batches of two-field dicts and of two-field namedtuples of numbers
RecordBatches ==
    UNION {[1..K -> {[type |-> "dict", keys |-> <<"pc", "label">>,
                      vals |-> <<PyInt(v), PyInt(v + 1)>>] : v \in 0..1}
                    \cup {[type |-> "namedtuple", items |-> <<PyInt(v), PyInt(v + 1)>>] :
                             v \in 0..1}] :
             K \in 1..MaxBatch}

IsSeqBatch(b) == \A i \in 1..Len(b) : b[i].type = "seq"

InitCollate ==
    /\ fn = "none"
    /\ arg \in {[batch |-> b, is_list |-> l] :
                   b \in TensorBatches \cup SeqBatches \cup UnsupportedBatches
                           \cup ArrayBatches \cup RecordBatches,
                   l \in BOOLEAN}
    /\ draw = NoDraw /\ ret = NoRet
    /\ fs = NoFs /\ dataset = NoDataset /\ call = NoCall

CallCollate ==
    /\ fn = "none"
    /\ \E in_worker \in BOOLEAN :
          /\ draw' = [in_worker |-> in_worker]
          /\ ret' = customized_collate_fn(arg.batch, arg.is_list, in_worker)
    /\ fn' = "customized_collate_fn"
    /\ UNCHANGED <<arg, fs, dataset, call>>

SpecCollate == InitCollate /\ [][CallCollate]_vars

\* C4: a list of K same-shaped tensors of shape S collates to one tensor of shape
\* (K,) + S whose i-th slice is the i-th tensor, for every S and K.
C4_Collate ==
    (fn = "customized_collate_fn" /\ arg.is_list /\ arg.batch[1].type = "tensor"
        /\ SameShape(arg.batch)) =>
        /\ ret.kind = "value"
        /\ ret.v.type = "tensor"
        /\ ret.v.shape = <<Len(arg.batch)>> \o arg.batch[1].shape
        /\ \A i \in 1..Len(arg.batch) : Slice(ret.v, i) = arg.batch[i].data

\* C12: customized_collate_fn reports malformed batches as errors instead of
\* returning a value: a batch of sequences that do not all have the same length
\* raises RuntimeError, and a batch whose first element is of an unsupported
\* type, or a numpy array of string or object dtype, raises TypeError.
C12_CollateErrors ==
    fn = "customized_collate_fn" =>
        /\ (IsSeqBatch(arg.batch)
               /\ \E i \in 1..Len(arg.batch) :
                     Len(arg.batch[i].items) # Len(arg.batch[1].items))
              => ret = Raise("RuntimeError")
        /\ (\/ arg.batch[1].type \in {"NoneType", "set"}
            \/ arg.batch[1].type = "ndarray" /\ arg.batch[1].dtype \in StrObjDtypes)
              => ret = Raise("TypeError")

----------------------------------------------------------------------------
(* The data on disk *)

MaxBucket == 2    \* most entries of an Objverse bucket
MaxBuckets == 3   \* most Objverse buckets

\* the stored cloud of n rows number k: n different points
Stored(n, k) == [i \in 1..n |-> <<(i + k) % (MaxCoord + 1), (i \div 2) % (MaxCoord + 1), k % 2>>]

\* a ModelNet row: x, y, z and a normal
Stored6(n, k) == [i \in 1..n |-> Stored(n, k)[i] \o <<0, 0, 1>>]

\* the content of a ModelNet cache whose clouds have n rows: two clouds, labels 0 and 1
CacheContent(n) == [points |-> <<Stored6(n, 0), Stored6(n, 1)>>, labels |-> <<<<0>>, <<1>>>>]

\* the file name a cache of the given point count has: modelnet40_<split>_<pts>pts_fps.dat
CachePath(pts) == <<"pts_fps.dat", pts>>

\* a ModelNet directory: the point counts that have a cache file, the rows of the
\* clouds in the 8192-point cache (0: no such file), and whether the raw files exist
ModelNetDisks == {[kind |-> "modelnet", exact |-> e, n8192 |-> n, raw |-> r] :
                     e \in SUBSET (1..MaxPts), n \in 0..MaxPts, r \in BOOLEAN}

\* an Objverse directory: bucket number i is an lmdb environment of sizes[i] entries
ObjverseDisks == UNION {{[kind |-> "objverse", sizes |-> z] : z \in [1..nb -> 0..MaxBucket]} :
                           nb \in 1..MaxBuckets}

\* the entry of key k in bucket b: (pc, imgs, texts)
ObjverseEntry(b, k) ==
    [pc |-> Stored(1 + ((b + k) % MaxPts), k),
     imgs |-> [i \in 1..(1 + (k % 2)) |-> <<"img", b, k, i>>],
     texts |-> [i \in 1..(1 + (k % 2)) |-> <<<<"text", b, k, i, 1>>, <<"text", b, k, i, 2>>>>]]

\* a ScanObjectNN directory: five h5 files of count[i] clouds each
ScanObjectNNDisks == {[kind |-> "scanobjectnn", count |-> c] : c \in [1..5 -> 0..1]}

----------------------------------------------------------------------------
(* ModelNet *)

process_data == TRUE

uniform == TRUE

generate_from_raw_data_enabled == TRUE

generate_from_raw_data == FALSE

RawPointCount == MaxPts

\* ModelNet.__init__: the object built, the files written, or the exception.
\* The raw files hold clouds of RawPointCount rows.
ModelNet_init(disk, config, draws) ==
    LET save_path == CachePath(config.npoints)
        exists == config.npoints \in disk.exact
        self0 == [kind |-> "ModelNet", npoints |-> config.npoints,
                  use_normals |-> config.USE_NORMALS, subset |-> config.subset,
                  save_path |-> save_path]
        load(path, n) == [kind |-> "built", written |-> {},
                          self |-> [self0 EXCEPT !.save_path = path]
                                    @@ [list_of_points |-> CacheContent(n).points,
                                        list_of_labels |-> CacheContent(n).labels]]
    IN IF process_data
       THEN IF ~exists
            THEN IF generate_from_raw_data
                 THEN IF ~disk.raw THEN Raise("FileNotFoundError")
                      ELSE LET raw == CacheContent(RawPointCount)
                               pts == [index \in 1..Len(raw.points) |->
                                          IF uniform
                                          THEN farthest_point_sample(raw.points[index],
                                                                     config.npoints, draws[index])
                                          ELSE SubSeq(raw.points[index], 1,
                                                      Min(config.npoints, Len(raw.points[index])))]
                           IN [kind |-> "built", written |-> {save_path},
                               self |-> self0 @@ [list_of_points |-> pts,
                                                  list_of_labels |-> raw.labels]]
                 ELSE IF disk.n8192 = 0 THEN Raise("FileNotFoundError")
                      ELSE load(CachePath(8192), disk.n8192)
            ELSE load(save_path, config.npoints)
       ELSE [kind |-> "built", written |-> {}, self |-> self0]

\* rows idxs (0-based) of an array in the exact representation
TakeRows(a, idxs) == [a EXCEPT !.lin = [i \in 1..Len(idxs) |-> a.lin[idxs[i] + 1]],
                               !.off = [i \in 1..Len(idxs) |-> a.off[idxs[i] + 1]]]

\* a _get_item that never samples the stored cloud down
ModelNet_get_item_unsampled(self, index, farthest0) ==
    LET point_set == self.list_of_points[index + 1]
        xyz == pc_normalize([i \in 1..Len(point_set) |-> SubSeq(point_set[i], 1, 3)])
    IN [points |-> [xyz |-> xyz,
                    normals |-> IF self.use_normals
                                THEN [i \in 1..Len(point_set) |-> SubSeq(point_set[i], 4, 6)]
                                ELSE <<>>],
        label |-> self.list_of_labels[index + 1][1]]

\* ModelNet._get_item with process_data set; config.use_height is False
ModelNet_get_item(self, index, farthest0) ==
    LET stored == self.list_of_points[index + 1]
        point_set == IF self.npoints < Len(stored)
                     THEN farthest_point_sample(stored, self.npoints, farthest0)
                     ELSE stored
        xyz == pc_normalize([i \in 1..Len(point_set) |-> SubSeq(point_set[i], 1, 3)])
    IN [points |-> [xyz |-> xyz,
                    normals |-> IF self.use_normals
                                THEN [i \in 1..Len(point_set) |-> SubSeq(point_set[i], 4, 6)]
                                ELSE <<>>],
        label |-> self.list_of_labels[index + 1][1]]

\* shape_names[int(label)]
ShapeName(label) == <<"shape_name", label>>

\* points[pt_idxs]
ModelNet_take(points, pt_idxs) ==
    [xyz |-> TakeRows(points.xyz, pt_idxs),
     normals |-> IF points.normals = <<>> THEN <<>>
                 ELSE [i \in 1..Len(pt_idxs) |-> points.normals[pt_idxs[i] + 1]]]

\* the orders np.random.shuffle can leave np.arange(0, n) in
Shuffles(n) == {p \in [1..n -> 0..(n - 1)] : \A i, j \in 1..n : i # j => p[i] # p[j]}

Arange(n) == [i \in 1..n |-> i - 1]

\* the orders of self.permutation that the draws of ShapeNet.random_sample range
\* over: unchanged, reversed, rotated by one
PermutationDraws(n) ==
    {Arange(n), [i \in 1..n |-> n - i], [i \in 1..n |-> i % n]}

----------------------------------------------------------------------------
(* Objverse *)

\* self.BUCKETS after the sort by bucket number, whatever order os.listdir gave
SortedBuckets(names) ==
    CHOOSE f \in [1..Cardinality(names) -> names] :
        \A i, j \in 1..Cardinality(names) : i < j => f[i] < f[j]

\* np.cumsum
Cumsum(s) == [i \in 1..Len(s) |-> SumSeq(SubSeq(s, 1, i))]

Objverse_init(disk) ==
    LET BUCKETS == SortedBuckets(DOMAIN disk.sizes)
        data_manual == [i \in 1..Len(BUCKETS) |-> disk.sizes[BUCKETS[i]]]
    IN [kind |-> "Objverse", BUCKETS |-> BUCKETS, data_manual |-> data_manual,
        len |-> SumSeq(data_manual),
        cumulative_bucket_scale |-> Cumsum(data_manual),
        augment |-> TRUE]

\* Python's None, as a bucket index no bucket has
None == 0 - 1

\* a search that steps over a bucket when id is past its last entry only
RECURSIVE find_bucket_from_gt(_, _, _)
find_bucket_from_gt(id, bucket_scale, bid) ==
    IF bid >= Len(bucket_scale) THEN None
    ELSE IF id > bucket_scale[bid + 1] THEN find_bucket_from_gt(id, bucket_scale, bid + 1)
    ELSE bid

RECURSIVE find_bucket_from(_, _, _)
find_bucket_from(id, bucket_scale, bid) ==
    IF bid >= Len(bucket_scale) THEN None
    ELSE IF id >= bucket_scale[bid + 1] THEN find_bucket_from(id, bucket_scale, bid + 1)
    ELSE bid

find_bucket_gt(id, bucket_scale) == find_bucket_from_gt(id, bucket_scale, 0)

\* Objverse.find_bucket: the loop over bucket_scale, None when it runs out
find_bucket(id, bucket_scale) == find_bucket_from(id, bucket_scale, 0)

\* the lookup part of Objverse.__getitem__
Objverse_locate(self, index) ==
    LET bucket_idx == find_bucket(index, self.cumulative_bucket_scale)
        initial_idx == IF bucket_idx = 0 THEN 0 ELSE self.cumulative_bucket_scale[bucket_idx]
    IN [bucket_idx |-> bucket_idx, initial_idx |-> initial_idx, key |-> index - initial_idx]

----------------------------------------------------------------------------
(* The augmentation chain of the adapters *)

\* the draws of one pass through the chain, for a cloud of n rows
AffineDraws == {[scale |-> <<4, 5>>, shift |-> <<-2, 0, 1>>,
                 angles |-> <<<<1, 0, 1>>, <<1, 0, 1>>, <<1, 0, 1>>>>, rot |-> <<0, 1, 1>>],
                [scale |-> <<6, 5>>, shift |-> <<1, 2, -1>>,
                 angles |-> <<<<84, 13, 85>>, <<84, 13, 85>>, <<84, -13, 85>>>>,
                 rot |-> <<3, 4, 5>>]}

\* drop_idx with the scale it is drawn with: nothing dropped, the last point
\* dropped, every point dropped
AugDraws(n) ==
    UNION {{[drop_idx |-> x[1], scale |-> a.scale, shift |-> a.shift,
             angles |-> a.angles, rot |-> a.rot] : a \in {y \in AffineDraws : y.scale[1] = x[2]}} :
              x \in {<<{}, 4>>, <<{n - 1}, 6>>, <<0..(n - 1), 6>>}}

ApplyAug(name, batch, d) ==
    CASE name = "random_point_dropout" -> random_point_dropout(batch, <<d.drop_idx>>)
      [] name = "random_scale_point_cloud" -> random_scale_point_cloud(batch, <<d.scale>>)
      [] name = "shift_point_cloud" -> shift_point_cloud(batch, <<d.shift>>)
      [] name = "rotate_perturbation_point_cloud" ->
            rotate_perturbation_point_cloud(batch, <<d.angles>>)
      [] name = "rotate_point_cloud" -> rotate_point_cloud(batch, <<d.rot>>)

RECURSIVE ApplyChain(_, _, _)
ApplyChain(chain, batch, d) ==
    IF chain = <<>> THEN batch
    ELSE ApplyChain(Tail(chain), ApplyAug(Head(chain), batch, d), d)

\* np.squeeze: the shape without its dimensions of size 1
RECURSIVE Squeeze(_)
Squeeze(shape) ==
    IF shape = <<>> THEN <<>>
    ELSE (IF shape[1] = 1 THEN <<>> ELSE <<shape[1]>>) \o Squeeze(Tail(shape))

\* a chain that shifts before it scales
ShapeNetAugChain_swapped ==
    <<"random_point_dropout", "shift_point_cloud", "random_scale_point_cloud",
      "rotate_perturbation_point_cloud", "rotate_point_cloud">>

\* the calls of Objverse.__getitem__ under self.augment, in order
ObjverseAugChain ==
    <<"random_point_dropout", "random_scale_point_cloud", "shift_point_cloud",
      "rotate_perturbation_point_cloud", "rotate_point_cloud">>

\* the calls of ShapeNet.__getitem__ under self.augment, in order
ShapeNetAugChain ==
    <<"random_point_dropout", "random_scale_point_cloud", "shift_point_cloud",
      "rotate_perturbation_point_cloud", "rotate_point_cloud">>

\* pc = self.pc_norm(pc), the chain on pc[None, ...], and pc.squeeze()
Objverse_process(self, pc, d) ==
    LET normed == Objverse_pc_norm(pc)
        out == IF self.augment THEN ApplyChain(ObjverseAugChain, <<normed>>, d) ELSE <<normed>>
    IN [applied |-> <<"pc_norm">> \o (IF self.augment THEN ObjverseAugChain ELSE <<>>),
        pc |-> [shape |-> IF self.augment THEN Squeeze(Shape(out)) ELSE Tail(Shape(out)),
                arr |-> out[1]]]

----------------------------------------------------------------------------
(* ScanObjectNN *)

\* np.concatenate of the data and labels of the five h5 files
ScanObjectNN_init(disk, config) ==
    LET per == [sp \in 1..5 |-> [i \in 1..disk.count[sp] |-> Stored(MaxPts, sp)]]
        lab == [sp \in 1..5 |-> [i \in 1..disk.count[sp] |-> sp]]
    IN [kind |-> "ScanObjectNN", npoints |-> config.npoints, subset |-> config.subset,
        data |-> Concat(per), label |-> Concat(lab)]

ScanObjectNN_getitem(self, item) ==
    [kind |-> "sample",
     pc |-> pc_normalize(self.data[item + 1]),
     caption |-> <<"tokens", <<"semantic_class", self.label[item + 1]>>>>]

----------------------------------------------------------------------------
(* ShapeNet *)

\* the lines of test.txt and of <subset>.txt, as tokens: <taxonomy>-<model>.npy
LineOf(taxonomy, model) == <<taxonomy, "-", model, ".", "npy">>

\* the rendered images a sample can pick: (rotation degree, image type); the code
\* picks among 30 degrees, of which the model keeps the first
ImagePicks == {<<"000", "">>, <<"000", "_depth0001">>}

\* a ShapeNet directory: the entries of test.txt (none or one) and of train.txt
\* (one); an entry has a cloud of rows points and the images that load (none,
\* or the plain rendering and not the depth map)
ShapeNetFiles == {[rows |-> n, good |-> g] : n \in 1..MaxPts, g \in {{}, {<<"000", "">>}}}

ShapeNetDisks == {[kind |-> "shapenet", test |-> t, train |-> <<r>>] :
                     t \in {<<>>} \cup {<<x>> : x \in ShapeNetFiles}, r \in ShapeNetFiles}

TestLine == LineOf("t1", "m1")
TrainLine == LineOf("t2", "m2")

\* IO.get(path): the cloud stored for a line, and the file behind it
FileOf(disk, line) == IF line = TestLine /\ disk.test # <<>> THEN disk.test[1] ELSE disk.train[1]

CloudOf(disk, line) == Stored(FileOf(disk, line).rows, IF line = TestLine THEN 1 ELSE 2)

\* taxonomy.json: the "name" of each synset, as tokens
SynsetName(taxonomy_id) ==
    IF taxonomy_id = "t1" THEN <<"chair", ",", "seat", ",">> ELSE <<"table">>

Templates == <<"a point cloud model of {}.", "a 3D model of {}.">>

\* line.split("-")[0]
RECURSIVE Before(_, _)
Before(tokens, sep) ==
    IF tokens = <<>> \/ Head(tokens) = sep THEN <<>>
    ELSE <<Head(tokens)>> \o Before(Tail(tokens), sep)

\* the words of captions.split(",") that are not empty
SplitCaptions(tokens) == FilterSeq(tokens, Range(tokens) \ {","})

\* the entry ShapeNet.__init__ makes of a line
ParseLine(line) ==
    LET taxonomy_id == Before(line, "-")
        rest == SubSeq(line, Len(taxonomy_id) + 2, Len(line))
    IN [taxonomy_id |-> taxonomy_id[1], model_id |-> Before(rest, ".")[1], file_path |-> line]

\* config.whole is set: lines = test_lines + lines
ShapeNet_init(disk, config) ==
    LET lines == [i \in 1..Len(disk.train) |-> TrainLine]
        test_lines == [i \in 1..Len(disk.test) |-> TestLine]
        all == IF config.whole THEN test_lines \o lines ELSE lines
    IN [kind |-> "ShapeNet", npoints |-> config.npoints, subset |-> config.subset,
        sample_points_num |-> config.npoints,
        file_list |-> [i \in 1..Len(all) |-> ParseLine(all[i])],
        permutation |-> Arange(config.npoints),
        uniform |-> TRUE, augment |-> TRUE]

\* a loop that keeps reading the first entry of file_list
ShapeNet_sample_first(self, idx) == self.file_list[1]

\* sample = self.file_list[idx]
ShapeNet_sample(self, idx) == self.file_list[idx + 1]

\* one pass of the body of the while loop of ShapeNet.__getitem__ with the draws d:
\* what it ends in ("sample", "corrupt", or the exception), and self.permutation
ShapeNet_attempt(self, disk, idx, d) ==
    LET sample == ShapeNet_sample(self, idx)
        stored == CloudOf(disk, sample.file_path)
        sampled == self.uniform /\ self.sample_points_num < Len(stored)
        permutation == IF sampled THEN self.permutation ELSE d.perm
        picked == [i \in 1..self.sample_points_num |-> permutation[i]]
    IN IF ~sampled /\ \E i \in 1..Len(picked) : picked[i] >= Len(stored)
       THEN [kind |-> "raise", exc |-> "IndexError", permutation |-> permutation]
       ELSE LET data == IF sampled
                        THEN farthest_point_sample(stored, self.sample_points_num, d.farthest)
                        ELSE [i \in 1..Len(picked) |-> stored[picked[i] + 1]]
                normed == ShapeNet_pc_norm(data)
                out == IF self.augment THEN ApplyChain(ShapeNetAugChain, <<normed>>, d)
                       ELSE <<normed>>
                pc == [shape |-> IF self.augment THEN Squeeze(Shape(out)) ELSE Tail(Shape(out)),
                       arr |-> out[1]]
                captions == SplitCaptions(SynsetName(sample.taxonomy_id))
                caption == <<Templates[d.template], captions[d.caption]>>
                picked_image_addr == <<sample.taxonomy_id, sample.model_id, d.image[1], d.image[2]>>
                loads == d.image \in FileOf(disk, LineOf(sample.taxonomy_id, sample.model_id)).good
            IN [kind |-> IF loads THEN "sample" ELSE "corrupt",
                permutation |-> permutation,
                applied |-> <<"pc_norm">> \o (IF self.augment THEN ShapeNetAugChain ELSE <<>>),
                rtn |-> [taxonomy_id |-> sample.taxonomy_id, model_id |-> sample.model_id,
                         caption |-> <<"tokens", caption>>, pc |-> pc,
                         image |-> <<"image", picked_image_addr>>]]

\* the draws of one pass, for the entry at idx
ShapeNetDraws(self, disk, idx) ==
    LET sample == ShapeNet_sample(self, idx)
        n == Len(CloudOf(disk, sample.file_path))
        sampled == self.sample_points_num < n
        ncap == Len(SplitCaptions(SynsetName(sample.taxonomy_id)))
    IN {[farthest |-> f, perm |-> p, template |-> t[1], caption |-> t[2], image |-> t[3],
         drop_idx |-> a.drop_idx, scale |-> a.scale, shift |-> a.shift,
         angles |-> a.angles, rot |-> a.rot] :
           f \in (IF sampled THEN 0..(n - 1) ELSE {0}),
           p \in (IF sampled THEN {self.permutation} ELSE PermutationDraws(self.npoints)),
           t \in {<<1, 1, <<"000", "">>>>, <<2, ncap, <<"000", "">>>>,
                  <<1, ncap, <<"000", "_depth0001">>>>},
           a \in AugDraws(self.npoints)}

----------------------------------------------------------------------------
(* The adapters as a state machine: a directory, the adapter built on it, *)
(* and the calls of __len__ and __getitem__                               *)

Disks == ModelNetDisks \cup ObjverseDisks \cup ScanObjectNNDisks \cup ShapeNetDisks

Init ==
    /\ fn = "none" /\ arg = NoArg /\ draw = NoDraw /\ ret = NoRet
    /\ fs \in {[disk |-> d, written |-> {}] : d \in Disks}
    /\ dataset = NoDataset
    /\ call = NoCall

Done(f, locals) == [pc |-> "returned", fn |-> f] @@ locals

BuildModelNet ==
    /\ dataset.kind = "none" /\ fs.disk.kind = "modelnet"
    /\ \E npoints \in 1..MaxPts, normals \in BOOLEAN, subset \in {"train", "test"} :
          LET config == [npoints |-> npoints, USE_NORMALS |-> normals, subset |-> subset]
              built == ModelNet_init(fs.disk, config, [i \in 1..2 |-> 0])
          IN IF built.kind = "raise"
             THEN /\ ret' = built
                  /\ call' = [pc |-> "raised", fn |-> "ModelNet.__init__"]
                  /\ UNCHANGED <<dataset, fs>>
             ELSE /\ ret' = [kind |-> "built"]
                  /\ call' = NoCall
                  /\ dataset' = built.self
                  /\ fs' = [disk |-> [fs.disk EXCEPT !.exact =
                                         IF built.written = {} THEN @ ELSE @ \cup {npoints}],
                            written |-> fs.written \cup built.written]
    /\ UNCHANGED <<fn, arg, draw>>

ModelNetGetItem ==
    /\ dataset.kind = "ModelNet" /\ call.pc = "idle"
    /\ \E index \in 0..(Len(dataset.list_of_labels) - 1) :
       \E farthest0 \in 0..(Len(dataset.list_of_points[index + 1]) - 1) :
          LET got == ModelNet_get_item(dataset, index, farthest0)
              n == Len(got.points.xyz.lin)
          IN \E pt_idxs \in (IF dataset.subset = "train" THEN Shuffles(n) ELSE {Arange(n)}) :
                /\ draw' = [farthest |-> farthest0, pt_idxs |-> pt_idxs]
                /\ call' = Done("ModelNet.__getitem__",
                                [index |-> index, points |-> got.points])
                /\ ret' = [kind |-> "sample", pc |-> ModelNet_take(got.points, pt_idxs),
                           label |-> got.label, class_name |-> ShapeName(got.label)]
    /\ UNCHANGED <<fn, arg, fs, dataset>>

BuildObjverse ==
    /\ dataset.kind = "none" /\ fs.disk.kind = "objverse"
    /\ dataset' = Objverse_init(fs.disk)
    /\ ret' = [kind |-> "built"]
    /\ call' = NoCall
    /\ UNCHANGED <<fn, arg, draw, fs>>

ObjverseGetItem ==
    /\ dataset.kind = "Objverse" /\ call.pc = "idle"
    /\ \E index \in 0..(dataset.len - 1) :
          LET at == Objverse_locate(dataset, index)
              entry == ObjverseEntry(dataset.BUCKETS[at.bucket_idx + 1], at.key)
          IN \E d \in AugDraws(Len(entry.pc)), img_idx \in 0..(Len(entry.imgs) - 1),
                cap \in 1..2 :
                LET done == Objverse_process(dataset, entry.pc, d)
                IN /\ draw' = d @@ [img_idx |-> img_idx, caption |-> cap]
                   /\ call' = Done("Objverse.__getitem__",
                                   [index |-> index, bucket_idx |-> at.bucket_idx,
                                    initial_idx |-> at.initial_idx, key |-> at.key,
                                    applied |-> done.applied])
                   /\ ret' = [kind |-> "sample", pc |-> done.pc,
                              image |-> <<"image", entry.imgs[img_idx + 1]>>,
                              caption |-> <<"tokens", entry.texts[img_idx + 1][cap]>>]
    /\ UNCHANGED <<fn, arg, fs, dataset>>

BuildScanObjectNN ==
    /\ dataset.kind = "none" /\ fs.disk.kind = "scanobjectnn"
    /\ \E npoints \in 1..MaxPts :
          LET config == [npoints |-> npoints, subset |-> "test"]
          IN /\ dataset' = ScanObjectNN_init(fs.disk, config)
             /\ call' = NoCall
    /\ ret' = [kind |-> "built"]
    /\ UNCHANGED <<fn, arg, draw, fs>>

ScanObjectNNGetItem ==
    /\ dataset.kind = "ScanObjectNN" /\ call.pc = "idle"
    /\ \E item \in 0..(Len(dataset.data) - 1) :
          /\ ret' = ScanObjectNN_getitem(dataset, item)
          /\ call' = Done("ScanObjectNN.__getitem__", [index |-> item])
    /\ UNCHANGED <<fn, arg, draw, fs, dataset>>

BuildShapeNet ==
    /\ dataset.kind = "none" /\ fs.disk.kind = "shapenet"
    /\ \E npoints \in 1..MaxPts :
          LET config == [npoints |-> npoints, subset |-> "train", whole |-> TRUE]
          IN /\ dataset' = ShapeNet_init(fs.disk, config)
             /\ call' = NoCall
    /\ ret' = [kind |-> "built"]
    /\ UNCHANGED <<fn, arg, draw, fs>>

\* ShapeNet.__getitem__(idx) is entered: rtn = None
ShapeNetCall ==
    /\ dataset.kind = "ShapeNet" /\ call.pc = "idle"
    /\ \E idx \in 0..(Len(dataset.file_list) - 1) :
          call' = [pc |-> "loop", fn |-> "ShapeNet.__getitem__", index |-> idx, idx |-> idx,
                   retried |-> FALSE]
    /\ ret' = NoRet
    /\ draw' = NoDraw
    /\ UNCHANGED <<fn, arg, fs, dataset>>

\* one pass of the body of the while loop: the image loads and rtn is returned,
\* or the image is corrupted and idx is drawn again, or the pass raises outside
\* the try block
ShapeNetPass ==
    /\ call.pc = "loop"
    /\ \E d \in ShapeNetDraws(dataset, fs.disk, call.idx) :
       \E a \in {ShapeNet_attempt(dataset, fs.disk, call.idx, d)} :
          /\ dataset' = [dataset EXCEPT !.permutation = a.permutation]
          /\ \/ /\ a.kind = "sample"
                /\ ret' = [kind |-> "sample"] @@ a.rtn
                /\ draw' = d
                /\ call' = [call EXCEPT !.pc = "returned"] @@ [applied |-> a.applied]
             \/ /\ a.kind = "corrupt"
                /\ \E idx \in 0..(Len(dataset.file_list) - 1) :
                      call' = [call EXCEPT !.idx = idx, !.retried = TRUE]
                /\ UNCHANGED <<draw, ret>>
             \/ /\ a.kind = "raise"
                /\ ret' = Raise(a.exc)
                /\ draw' = [perm |-> d.perm]
                /\ call' = [call EXCEPT !.pc = "raised"]
    /\ UNCHANGED <<fn, arg, fs>>

\* __len__ of the adapter built
LenCall ==
    /\ dataset.kind # "none" /\ call.pc = "idle"
    /\ ret' = [kind |-> "len",
               v |-> CASE dataset.kind = "ModelNet" -> Len(dataset.list_of_labels)
                       [] dataset.kind = "Objverse" -> dataset.len
                       [] dataset.kind = "ScanObjectNN" -> Len(dataset.data)
                       [] dataset.kind = "ShapeNet" -> Len(dataset.file_list)]
    /\ call' = Done("__len__", [index |-> 0])
    /\ UNCHANGED <<fn, arg, draw, fs, dataset>>

\* the caller takes what the call returned; an exception ends the run instead
Deliver ==
    /\ call.pc = "returned"
    /\ call' = NoCall /\ ret' = NoRet /\ draw' = NoDraw
    /\ UNCHANGED <<fn, arg, fs, dataset>>

Next ==
    \/ BuildModelNet \/ ModelNetGetItem
    \/ BuildObjverse \/ ObjverseGetItem
    \/ BuildScanObjectNN \/ ScanObjectNNGetItem
    \/ BuildShapeNet \/ ShapeNetCall \/ ShapeNetPass
    \/ LenCall \/ Deliver

Spec == Init /\ [][Next]_vars

----------------------------------------------------------------------------
(* Claims about the adapters *)

GetItemReturned(f) == call.fn = f /\ call.pc = "returned"

NormThenChain(chain) == <<"pc_norm">> \o chain

\* C5 as stated: an adapter with augmentation normalises the cloud and then
\* applies dropout, scale, shift, jitter and rotation, in that order.
C5_Original ==
    (GetItemReturned("Objverse.__getitem__") \/ GetItemReturned("ShapeNet.__getitem__")) =>
        call.applied = NormThenChain(<<"random_point_dropout", "random_scale_point_cloud",
                                       "shift_point_cloud", "jitter_point_cloud",
                                       "rotate_point_cloud">>)

\* C5 amended: both adapters normalise the cloud and then apply, on every call
\* and in this order, dropout, scale, shift, the rotation perturbation and the
\* rotation about the up axis; jitter_point_cloud is not applied.
C5_FixedOrder ==
    (GetItemReturned("Objverse.__getitem__") \/ GetItemReturned("ShapeNet.__getitem__")) =>
        call.applied = NormThenChain(<<"random_point_dropout", "random_scale_point_cloud",
                                       "shift_point_cloud", "rotate_perturbation_point_cloud",
                                       "rotate_point_cloud">>)

\* ShapeNet returned a sample of several rows on a pass that followed a retry
C5_Witness ==
    /\ GetItemReturned("ShapeNet.__getitem__")
    /\ call.retried
    /\ Len(call.applied) = 6
    /\ ret.pc.shape = <<MaxPts, 3>>

\* C7: building an adapter and calling __len__ and __getitem__ on it never
\* creates or writes a file: the directory stays as it was.
C7_ReadOnly == [][fs' = fs]_vars

\* ModelNet fell back to the 8192-point cache, with the raw files at hand and
\* no cache for npoints, and served an item without writing one
C7_Witness ==
    /\ GetItemReturned("ModelNet.__getitem__")
    /\ dataset.save_path = CachePath(8192)
    /\ fs.disk.raw
    /\ dataset.npoints \notin fs.disk.exact
    /\ fs.written = {}

\* the (bucket, local key) pairs of the stored entries
ObjverseStored(self) ==
    {x \in (0..(Len(self.BUCKETS) - 1)) \X (0..(MaxBucket - 1)) :
        x[2] < self.data_manual[x[1] + 1]}

\* C8: for every index below __len__ the bucket found and the local key name a
\* stored entry, the index is the entries of the buckets before plus the key,
\* and the mapping is one-to-one onto the stored entries.
C8_BucketLookup ==
    dataset.kind = "Objverse" =>
        LET at(i) == Objverse_locate(dataset, i)
            pair(i) == <<at(i).bucket_idx, at(i).key>>
            idxs == 0..(dataset.len - 1)
        IN /\ \A i \in idxs :
                 /\ pair(i) \in ObjverseStored(dataset)
                 /\ i = SumSeq(SubSeq(dataset.data_manual, 1, at(i).bucket_idx)) + at(i).key
           /\ \A i, j \in idxs : pair(i) = pair(j) => i = j
           /\ \A x \in ObjverseStored(dataset) : \E i \in idxs : pair(i) = x
           /\ GetItemReturned("Objverse.__getitem__") =>
                 /\ <<call.bucket_idx, call.key>> = pair(call.index)
                 /\ dataset.data_manual[call.bucket_idx + 1] > call.key

\* an item of the last bucket, behind an empty one, with a key above 0
C8_Witness ==
    /\ GetItemReturned("Objverse.__getitem__")
    /\ call.bucket_idx = MaxBuckets - 1
    /\ dataset.data_manual[call.bucket_idx] = 0
    /\ dataset.data_manual[1] > 0
    /\ call.key = MaxBucket - 1
    /\ call.index # call.key

\* C9: a call of ShapeNet.__getitem__ ends with a sample whose cloud has exactly
\* npoints rows, whether the entry stores more, as many or fewer points.
C9_Rows ==
    (call.fn = "ShapeNet.__getitem__" /\ call.pc \in {"returned", "raised"}) =>
        /\ ret.kind = "sample"
        /\ ret.pc.shape = <<dataset.npoints, 3>>

FallbackLoaded == dataset.kind = "ModelNet" /\ dataset.save_path = CachePath(8192)

ModelNetRows(pc) == Len(pc.xyz.lin)

StoredRows == Len(dataset.list_of_points[call.index + 1])

----------------------------------------------------------------------------
\* C13: in every sample returned by ShapeNet.__getitem__ the fields taxonomy_id,
\* model_id, pc, caption and image all derive from one file_list entry, the one
\* at the index of the last pass of the loop: after retries that is the
\* re-drawn entry, and nothing of a failed attempt is in the sample.
C13_OneEntry ==
    GetItemReturned("ShapeNet.__getitem__") =>
        LET e == dataset.file_list[call.idx + 1]
            stored == CloudOf(fs.disk, e.file_path)
            n == dataset.sample_points_num
            data == IF n < Len(stored)
                    THEN farthest_point_sample(stored, n, draw.farthest)
                    ELSE [i \in 1..n |-> stored[draw.perm[i] + 1]]
        IN /\ ret.taxonomy_id = e.taxonomy_id
           /\ ret.model_id = e.model_id
           /\ ret.pc.arr = ApplyChain(ShapeNetAugChain, <<ShapeNet_pc_norm(data)>>, draw)[1]
           /\ ret.caption[2][2] \in Range(SplitCaptions(SynsetName(e.taxonomy_id)))
           /\ ret.image = <<"image", <<e.taxonomy_id, e.model_id, draw.image[1], draw.image[2]>>>>
           /\ draw.image \in FileOf(fs.disk, e.file_path).good

\* a sample returned after a retry, from another entry than the requested one
C13_Witness ==
    /\ GetItemReturned("ShapeNet.__getitem__")
    /\ call.retried /\ call.idx # call.index
    /\ ret.taxonomy_id = dataset.file_list[call.idx + 1].taxonomy_id
    /\ ret.taxonomy_id # dataset.file_list[call.index + 1].taxonomy_id

(* ShapeNet alone, with the fairness of its retry loop: the loop keeps     *)
(* running, and a draw that can come up again and again does come up       *)

InitShapeNet == Init /\ fs.disk.kind = "shapenet"

NextShapeNet == BuildShapeNet \/ ShapeNetCall \/ ShapeNetPass \/ LenCall \/ Deliver

ShapeNetReturn == ShapeNetPass /\ call'.pc = "returned"

ShapeNetRedraw(i) == ShapeNetPass /\ call'.pc = "loop" /\ call'.idx = i

FairShapeNet ==
    /\ InitShapeNet /\ [][NextShapeNet]_vars
    /\ WF_vars(ShapeNetPass)
    /\ SF_vars(ShapeNetReturn)
    /\ \A i \in 0..1 : SF_vars(ShapeNetRedraw(i))

SomeImageLoads ==
    \E i \in 1..Len(dataset.file_list) :
       FileOf(fs.disk, dataset.file_list[i].file_path).good # {}

\* C6: when some entry of file_list has an image that loads, every call of
\* ShapeNet.__getitem__ eventually returns a sample: a call is either still
\* in its retry loop, which the fairness above drives on, or it has ended
\* by returning a sample; it never ends in any other way.
C6_ReturnsSample ==
    (call.fn = "ShapeNet.__getitem__" /\ SomeImageLoads)
        => \/ call.pc = "loop"
           \/ call.pc = "returned" /\ ret.kind = "sample"

====
